---- MODULE Spec2Model ----
(***************************************************************************)
(* A model of the predictml prediction services.                           *)
(*                                                                         *)
(*   Spec         the history-recording service of src/main.py with its    *)
(*                database (src/models.py)                                 *)
(*   SpecBackend  the stateless service of src/backend/main.py             *)
(*   SpecSim      the simulated stock and weather predictors               *)
(*   SpecRegistry process startups over a database file that may already   *)
(*                hold model_versions rows                                 *)
(*                                                                         *)
(* Numbers are fixed point: a real x is the integer x * Unit (thousandths).*)
(* Strings that the code lower-cases are sequences of one-character        *)
(* strings, so that str.lower() is a computation and not the identity.     *)
(***************************************************************************)
EXTENDS Integers, Sequences, FiniteSets, TLC

VARIABLES
    started,         \* src/main.py: the startup event has completed
    model_versions,  \* table model_versions, rows in insertion order
    history,         \* table prediction_history, rows in insertion order
    now,             \* the wall clock read by datetime.utcnow()
    request,         \* the last request, with what the model and the database did for it
    features,        \* the feature row handed to the scaler / model
    response,        \* the HTTP response of the last request
    result,          \* the dict last returned by a simulated predictor
    frame,           \* that call's arguments and local variables at return
    sessions         \* the requests in flight, each with its own database session

vars == <<started, model_versions, history, now, request, features, response,
          result, frame, sessions>>

Unit == 10 * 10 * 10

\* Optional values: None (Python None, SQL NULL) or Some(x).
None == <<>>
Some(x) == <<x>>

\* No request answered / no predictor called yet.
Nothing == [endpoint |-> "", kind |-> "", status |-> 0]

(***************************************************************************)
(* Strings and str.lower()                                                 *)
(***************************************************************************)
UpperChars == <<"A","B","C","D","E","F","G","H","I","J","K","L","M",
                "N","O","P","Q","R","S","T","U","V","W","X","Y","Z">>
LowerChars == <<"a","b","c","d","e","f","g","h","i","j","k","l","m",
                "n","o","p","q","r","s","t","u","v","w","x","y","z">>

LowerChar(c) ==
    IF \E i \in 1..Len(UpperChars) : UpperChars[i] = c
    THEN LowerChars[CHOOSE i \in 1..Len(UpperChars) : UpperChars[i] = c]
    ELSE c

RECURSIVE Lower(_)
Lower(s) == IF s = <<>> THEN <<>> ELSE <<LowerChar(Head(s))>> \o Lower(Tail(s))

\* dict.get(key, default)
DictGet(d, key, default) == IF key \in DOMAIN d THEN d[key] ELSE default

(***************************************************************************)
(* Vocabularies                                                            *)
(***************************************************************************)
city_map ==
       (<<"m","u","m","b","a","i">> :> 0)
    @@ (<<"d","e","l","h","i">> :> 1)
    @@ (<<"b","a","n","g","a","l","o","r","e">> :> 2)
    @@ (<<"c","h","e","n","n","a","i">> :> 3)
    @@ (<<"h","y","d","e","r","a","b","a","d">> :> 4)
    @@ (<<"p","u","n","e">> :> 5)
    @@ (<<"k","o","l","k","a","t","a">> :> 6)
    @@ (<<"a","h","m","e","d","a","b","a","d">> :> 7)

edu_map ==
       (<<"h","i","g","h","_","s","c","h","o","o","l">> :> 0)
    @@ (<<"b","a","c","h","e","l","o","r">> :> 1)
    @@ (<<"m","a","s","t","e","r">> :> 2)
    @@ (<<"p","h","d">> :> 3)

job_map ==
       (<<"i","t">> :> 0)
    @@ (<<"h","e","a","l","t","h","c","a","r","e">> :> 1)
    @@ (<<"f","i","n","a","n","c","e">> :> 2)
    @@ (<<"e","n","g","i","n","e","e","r","i","n","g">> :> 3)
    @@ (<<"s","a","l","e","s">> :> 4)
    @@ (<<"m","a","r","k","e","t","i","n","g">> :> 5)

crop_map ==
       (<<"r","i","c","e">> :> 0)
    @@ (<<"w","h","e","a","t">> :> 1)
    @@ (<<"c","o","t","t","o","n">> :> 2)
    @@ (<<"s","u","g","a","r","c","a","n","e">> :> 3)
    @@ (<<"m","a","i","z","e">> :> 4)
    @@ (<<"s","o","y","b","e","a","n">> :> 5)
    @@ (<<"p","o","t","a","t","o">> :> 6)

state_map ==
       (<<"p","u","n","j","a","b">> :> 0)
    @@ (<<"h","a","r","y","a","n","a">> :> 1)
    @@ (<<"u","p">> :> 2)
    @@ (<<"m","p">> :> 3)
    @@ (<<"m","a","h","a","r","a","s","h","t","r","a">> :> 4)
    @@ (<<"k","a","r","n","a","t","a","k","a">> :> 5)
    @@ (<<"t","n">> :> 6)
    @@ (<<"w","b">> :> 7)

\* models/location_map.pkl as written by the training script
location_map ==
       (<<"r","u","r","a","l">> :> 0)
    @@ (<<"s","u","b","u","r","b","a","n">> :> 1)
    @@ (<<"u","r","b","a","n">> :> 2)

(***************************************************************************)
(* Scoring models (opaque joblib artifacts)                                *)
(***************************************************************************)
\* What scaler.transform / model.predict may do with a feature row: return
\* any real number, or raise.
RawOutputs == {-12000 * Unit, -3000 * Unit - 4, 0, 40000 * Unit + 346}

Outcomes(values) ==
    {[ok |-> TRUE, value |-> r] : r \in values} \cup {[ok |-> FALSE, value |-> 0]}

ScoreOutcomes == Outcomes(RawOutputs)

\* Python max(0, x)
Max0(x) == IF x > 0 THEN x ELSE 0

(***************************************************************************)
(* src/backend/main.py                                                     *)
(***************************************************************************)
CityInputs == { <<"M","u","m","b","a","i">>, <<"p","u","n","e">>,
                <<"K","O","L","K","A","T","A">>, <<"G","o","a">>,
                <<"p","u","n","e"," ">>, <<>> }
EducationInputs == { <<"B","a","c","h","e","l","o","r">>, <<"P","h","D">>,
                     <<"d","i","p","l","o","m","a">> }
JobInputs == { <<"I","T">>, <<"s","a","l","e","s">>, <<"L","e","g","a","l">> }
CropInputs == { <<"R","i","c","e">>, <<"w","h","e","a","t">>,
                <<"B","a","r","l","e","y">> }
StateInputs == { <<"P","u","n","j","a","b">>, <<"w","b">>,
                 <<"K","e","r","a","l","a">> }
SkillsInputs == { <<>>, <<"python">>, <<"python", "sql", "excel">> }

HousePriceInputs ==
    [city : CityInputs, area_sqft : {-500 * Unit, 1000 * Unit}, bedrooms : {2},
     bathrooms : {2, 3}, age : {5}, location_rating : {4 * Unit}]

SalaryInputs ==
    [experience_years : {-2 * Unit, 5 * Unit}, education_level : EducationInputs,
     skills : SkillsInputs, job_type : JobInputs, city_tier : {2}]

CropYieldInputs ==
    [crop_type : CropInputs, state : StateInputs, area_hectares : {10 * Unit},
     rainfall_mm : {800 * Unit}, temperature_celsius : {25 * Unit},
     fertilizer_kg : {100 * Unit}, pesticide_kg : {-5 * Unit, 5 * Unit}]

\* Mutant: the city is looked up as typed
EncodeCityAsTyped(city) == DictGet(city_map, city, 6)
EncodeCity(city) == DictGet(city_map, Lower(city), 6)
\* Mutant: an unknown education level takes the first code instead of bachelor's
EncodeEducationFirst(education_level) == DictGet(edu_map, Lower(education_level), 0)
EncodeEducation(education_level) == DictGet(edu_map, Lower(education_level), 1)
EncodeJob(job_type) == DictGet(job_map, Lower(job_type), 0)
EncodeCrop(crop_type) == DictGet(crop_map, Lower(crop_type), 0)
EncodeState(state) == DictGet(state_map, Lower(state), 0)

\* Mutant: bathrooms and bedrooms change places in the feature row
HousePriceFeaturesSwapped(input) ==
    << EncodeCity(input.city), input.area_sqft, input.bathrooms, input.bedrooms,
       input.age, input.location_rating >>

HousePriceFeatures(input) ==
    << EncodeCity(input.city), input.area_sqft, input.bedrooms, input.bathrooms,
       input.age, input.location_rating >>

SalaryFeatures(input) ==
    << input.experience_years, EncodeEducation(input.education_level),
       EncodeJob(input.job_type), input.city_tier, Len(input.skills) >>

CropYieldFeatures(input) ==
    << EncodeCrop(input.crop_type), EncodeState(input.state), input.area_hectares,
       input.rainfall_mm, input.temperature_celsius, input.fertilizer_kg,
       input.pesticide_kg >>

skill_bonus(skills) == Len(skills) * 5000 * Unit

\* The salary returned for raw model output raw: the bonus is added to the raw
\* output and the sum is clamped.
SalaryPrediction(raw, skills) == Max0(raw + skill_bonus(skills))

BackendError(detail) == [status |-> 400, detail |-> detail]

predict_house_price(input, out) ==
    IF ~out.ok THEN BackendError("scoring")
    ELSE [status |-> 200, prediction |-> Max0(out.value), currency |-> "INR",
          model |-> "house_price"]

backend_predict_salary(input, out) ==
    IF ~out.ok THEN BackendError("scoring")
    ELSE [status |-> 200, prediction |-> SalaryPrediction(out.value, input.skills),
          currency |-> "INR", model |-> "salary"]

predict_crop_yield(input, out) ==
    IF ~out.ok THEN BackendError("scoring")
    ELSE [status |-> 200, prediction |-> Max0(out.value), unit |-> "kg",
          model |-> "crop_yield"]

BackendUnchanged ==
    UNCHANGED <<started, model_versions, history, now, result, frame, sessions>>

PredictHousePrice ==
    \E input \in HousePriceInputs, out \in ScoreOutcomes :
        /\ request' = [endpoint |-> "/api/house-price/predict", input |-> input,
                       scored |-> out]
        /\ features' = HousePriceFeatures(input)
        /\ response' = predict_house_price(input, out)
        /\ BackendUnchanged

BackendPredictSalary ==
    \E input \in SalaryInputs, out \in ScoreOutcomes :
        /\ request' = [endpoint |-> "/api/salary/predict", input |-> input,
                       scored |-> out]
        /\ features' = SalaryFeatures(input)
        /\ response' = backend_predict_salary(input, out)
        /\ BackendUnchanged

PredictCropYield ==
    \E input \in CropYieldInputs, out \in ScoreOutcomes :
        /\ request' = [endpoint |-> "/api/crop-yield/predict", input |-> input,
                       scored |-> out]
        /\ features' = CropYieldFeatures(input)
        /\ response' = predict_crop_yield(input, out)
        /\ BackendUnchanged

InitIdle ==
    /\ started = FALSE
    /\ model_versions = <<>>
    /\ history = <<>>
    /\ now = 0
    /\ request = Nothing
    /\ features = <<>>
    /\ response = Nothing
    /\ result = Nothing
    /\ frame = Nothing
    /\ sessions = <<>>

NextBackend == PredictHousePrice \/ BackendPredictSalary \/ PredictCropYield

SpecBackend == InitIdle /\ [][NextBackend]_vars

(***************************************************************************)
(* Arithmetic of the simulated predictors                                  *)
(***************************************************************************)
RECURSIVE SqrtSearch(_, _, _)
SqrtSearch(n, lo, hi) ==
    IF lo >= hi THEN lo
    ELSE LET mid == (lo + hi + 1) \div 2
         IN  IF mid * mid <= n THEN SqrtSearch(n, mid, hi)
             ELSE SqrtSearch(n, lo, mid - 1)


\* Python round(x, ndigits): to a multiple of step, halves to the even multiple
RoundTo(x, step) ==
    LET q == x \div step
        r == x % step
    IN  IF 2 * r < step THEN q * step
        ELSE IF 2 * r > step THEN (q + 1) * step
        ELSE IF q % 2 = 0 THEN q * step ELSE (q + 1) * step

Round2(x) == RoundTo(x, Unit \div 100)
Round1(x) == RoundTo(x, Unit \div 10)

Max(a, b) == IF a >= b THEN a ELSE b
Min(a, b) == IF a <= b THEN a ELSE b

\* np.clip(x, lo, hi)
Clip(x, lo, hi) == Min(Max(x, lo), hi)

\* np.random.normal(0, scale) draws scale * z for a standard normal z, and
\* raises ValueError when the sign bit of scale is set. A product of a
\* negative factor and 0.0 is -0.0, for which the outcome depends on the numpy
\* build (signbit_check).
NormalRaises(scale, negative_factor, signbit_check) ==
    \/ scale < 0
    \/ scale = 0 /\ negative_factor /\ signbit_check

Normal(scale, z) == (scale * z) \div Unit

\* Standard normal draws
StdNormalDraws == {-1500, 0, 2000}

MaxDays == 11
DaysAhead == 0..MaxDays

\* np.sqrt(days_ahead) in fixed point, for the days_ahead the model draws
SqrtTable == [d \in DaysAhead |-> SqrtSearch(d * Unit * Unit, 0, 4 * Unit)]
Sqrt(days_ahead) == SqrtTable[days_ahead]

(***************************************************************************)
(* src/backend/stock_model.py                                              *)
(***************************************************************************)
\* self.trend_weight = 0.05 and self.volatility = 0.02, in thousandths
trend_weight == 50
volatility == 20

\* current_price * self.volatility * np.sqrt(days_ahead)
StockStdError(current_price, days_ahead) ==
    (((current_price * volatility) \div Unit) * Sqrt(days_ahead)) \div Unit

\* Mutant: the linear decay without its floor
StockConfidenceUnfloored(days_ahead) == Unit - days_ahead * 50
StockConfidence(days_ahead) == Max(Unit \div 2, Unit - days_ahead * 50)

\* Mutant: the band's lower edge computed with the sign of the upper edge
StockLowerBoundAbove(predicted_price, std_error) ==
    predicted_price + (196 * std_error) \div 100
StockLowerBound(predicted_price, std_error) == predicted_price - (196 * std_error) \div 100
StockUpperBound(predicted_price, std_error) == predicted_price + (196 * std_error) \div 100

StockRaises(current_price, days_ahead, signbit_check) ==
    NormalRaises(StockStdError(current_price, days_ahead), current_price < 0,
                 signbit_check)

StockPredictorPredict(current_price, days_ahead, z) ==
    LET trend == (current_price * trend_weight * days_ahead) \div Unit
        noise == Normal(StockStdError(current_price, days_ahead), z)
        predicted_price == current_price + trend + noise
        std_error == StockStdError(current_price, days_ahead)
        lower_bound == StockLowerBound(predicted_price, std_error)
        upper_bound == StockUpperBound(predicted_price, std_error)
        confidence == StockConfidence(days_ahead)
    IN  [ret |-> [kind |-> "stock",
                  predicted_price |-> Round2(predicted_price),
                  confidence |-> Round2(confidence),
                  lower_bound |-> Round2(lower_bound),
                  upper_bound |-> Round2(upper_bound),
                  days_ahead |-> days_ahead],
         locals |-> [kind |-> "stock", current_price |-> current_price,
                     days_ahead |-> days_ahead, predicted_price |-> predicted_price,
                     std_error |-> std_error, lower_bound |-> lower_bound,
                     upper_bound |-> upper_bound]]

(***************************************************************************)
(* src/backend/weather_model.py                                            *)
(***************************************************************************)
\* self.temperature_mean_reversion = 20 (degrees, scaled where it is used)
temperature_mean_reversion == 20

\* Mutant: the humidity thresholds taken inclusively
WeatherConditionInclusive(predicted_humidity, predicted_temp) ==
    IF predicted_humidity >= 70 * Unit
    THEN IF predicted_temp > 15 * Unit THEN "Rainy" ELSE "Snowy"
    ELSE IF predicted_humidity >= 50 * Unit THEN "Cloudy"
    ELSE "Sunny"

WeatherCondition(predicted_humidity, predicted_temp) ==
    IF predicted_humidity > 70 * Unit
    THEN IF predicted_temp > 15 * Unit THEN "Rainy" ELSE "Snowy"
    ELSE IF predicted_humidity > 50 * Unit THEN "Cloudy"
    ELSE "Sunny"

PrecipitationChance(predicted_humidity, predicted_temp) ==
    IF predicted_humidity > 70 * Unit
    THEN IF predicted_temp > 15 * Unit
         THEN Min(95 * Unit, 50 * Unit + (predicted_humidity * 5) \div 10)
         ELSE Min(95 * Unit, 40 * Unit + (predicted_humidity * 4) \div 10)
    ELSE IF predicted_humidity > 50 * Unit
         THEN Min(60 * Unit, (predicted_humidity * 6) \div 10)
    ELSE Max(5 * Unit, (predicted_humidity * 3) \div 10)

WeatherConfidence(days_ahead) == Max((Unit * 4) \div 10, (Unit * 95) \div 100 - days_ahead * 80)

PredictedHumidity(current_humidity, humidity_noise) ==
    Clip(current_humidity + humidity_noise, 0, 100 * Unit)

WeatherPredictorPredict(current_temp, current_humidity, days_ahead, z_temp, z_hum) ==
    LET temp_change ==
            ((temperature_mean_reversion * Unit - current_temp) * days_ahead) \div 10
        temp_noise == Normal(2 * Sqrt(days_ahead), z_temp)
        predicted_temp == current_temp + temp_change + temp_noise
        humidity_noise == Normal(5 * Sqrt(days_ahead), z_hum)
        predicted_humidity == PredictedHumidity(current_humidity, humidity_noise)
        condition == WeatherCondition(predicted_humidity, predicted_temp)
        precipitation_chance == PrecipitationChance(predicted_humidity, predicted_temp)
        confidence == WeatherConfidence(days_ahead)
    IN  [ret |-> [kind |-> "weather",
                  predicted_temperature |-> Round1(predicted_temp),
                  predicted_humidity |-> Round1(predicted_humidity),
                  condition |-> condition,
                  precipitation_chance |-> Round1(precipitation_chance),
                  confidence |-> Round2(confidence),
                  days_ahead |-> days_ahead],
         locals |-> [kind |-> "weather", current_temp |-> current_temp,
                     current_humidity |-> current_humidity,
                     days_ahead |-> days_ahead, predicted_temp |-> predicted_temp,
                     predicted_humidity |-> predicted_humidity,
                     condition |-> condition,
                     precipitation_chance |-> precipitation_chance]]

(***************************************************************************)
(* The predictors called directly                                          *)
(***************************************************************************)
StockPrices == {-100 * Unit, 0, 100 * Unit}
WeatherTemps == {15 * Unit, 15 * Unit + 10}
WeatherHumidities == {-5 * Unit, 10 * Unit, 50 * Unit, 50 * Unit + 10, 70 * Unit,
                      70 * Unit + 10, 90 * Unit, 120 * Unit}

SimUnchanged ==
    UNCHANGED <<started, model_versions, history, now, request, features, response,
                sessions>>

StockCall ==
    \E current_price \in StockPrices, days_ahead \in DaysAhead, z \in StdNormalDraws,
       signbit_check \in BOOLEAN :
        /\ ~StockRaises(current_price, days_ahead, signbit_check)
        /\ LET r == StockPredictorPredict(current_price, days_ahead, z)
           IN  result' = r.ret /\ frame' = r.locals
        /\ SimUnchanged

StockCallRaises ==
    \E current_price \in StockPrices, days_ahead \in DaysAhead,
       signbit_check \in BOOLEAN :
        /\ StockRaises(current_price, days_ahead, signbit_check)
        /\ result' = [kind |-> "raised", raised |-> "ValueError"]
        /\ frame' = [kind |-> "raised", current_price |-> current_price,
                     days_ahead |-> days_ahead]
        /\ SimUnchanged

WeatherCall ==
    \E current_temp \in WeatherTemps, current_humidity \in WeatherHumidities,
       days_ahead \in DaysAhead, z_temp \in {-1500, 0}, z_hum \in {0, 2000} :
        /\ LET r == WeatherPredictorPredict(current_temp, current_humidity,
                                            days_ahead, z_temp, z_hum)
           IN  result' = r.ret /\ frame' = r.locals
        /\ SimUnchanged

NextSim == StockCall \/ StockCallRaises \/ WeatherCall

SpecSim == InitIdle /\ [][NextSim]_vars

(***************************************************************************)
(* src/models.py: the database                                             *)
(***************************************************************************)
\* Mutant: the salary model is registered under a later version
models_later_salary ==
    << [model_name |-> "salary", current_version |-> "v1.1",
        description |-> "Linear Regression", accuracy |-> 98],
       [model_name |-> "house", current_version |-> "v1.0",
        description |-> "Random Forest", accuracy |-> 95],
       [model_name |-> "crop", current_version |-> "v1.0",
        description |-> "Decision Tree", accuracy |-> 92],
       [model_name |-> "stock", current_version |-> "v1.0",
        description |-> "LSTM (simulated)", accuracy |-> 85],
       [model_name |-> "weather", current_version |-> "v1.0",
        description |-> "Random Forest", accuracy |-> 88] >>

\* The rows init_model_versions creates (accuracy in hundredths)
models ==
    << [model_name |-> "salary", current_version |-> "v1.0",
        description |-> "Linear Regression", accuracy |-> 98],
       [model_name |-> "house", current_version |-> "v1.0",
        description |-> "Random Forest", accuracy |-> 95],
       [model_name |-> "crop", current_version |-> "v1.0",
        description |-> "Decision Tree", accuracy |-> 92],
       [model_name |-> "stock", current_version |-> "v1.0",
        description |-> "LSTM (simulated)", accuracy |-> 85],
       [model_name |-> "weather", current_version |-> "v1.0",
        description |-> "Random Forest", accuracy |-> 88] >>

\* db.query(ModelVersion).filter(ModelVersion.model_name == name).first()
FirstModelVersion(table, name) ==
    IF \E i \in 1..Len(table) : table[i].model_name = name
    THEN Some(table[CHOOSE i \in 1..Len(table) :
                      /\ table[i].model_name = name
                      /\ \A j \in 1..(i - 1) : table[j].model_name # name])
    ELSE None

\* ModelVersion(**model_data) as inserted at time t
NewModelVersion(table, model_data, t) ==
    [id |-> Len(table) + 1, model_name |-> model_data.model_name,
     current_version |-> model_data.current_version,
     description |-> model_data.description, accuracy |-> model_data.accuracy,
     created_at |-> t, updated_at |-> t]

\* Mutant: an upsert, which resets a row that exists to the built-in values
InitOneModelVersionUpsert(table, model_data, t) ==
    IF FirstModelVersion(table, model_data.model_name) = None
    THEN Append(table, NewModelVersion(table, model_data, t))
    ELSE [i \in 1..Len(table) |->
            IF table[i].model_name = model_data.model_name
            THEN [NewModelVersion(table, model_data, t) EXCEPT !.id = table[i].id]
            ELSE table[i]]

\* One pass of the loop body
InitOneModelVersion(table, model_data, t) ==
    IF FirstModelVersion(table, model_data.model_name) = None
    THEN Append(table, NewModelVersion(table, model_data, t))
    ELSE table

RECURSIVE InitLoop(_, _, _)
InitLoop(table, i, t) ==
    IF i > Len(models) THEN table
    ELSE InitLoop(InitOneModelVersion(table, models[i], t), i + 1, t)

\* The table after init_model_versions has committed
init_model_versions(table, t) == InitLoop(table, 1, t)

(***************************************************************************)
(* src/main.py                                                             *)
(***************************************************************************)
MaxHistory == 2

\* Readings of the wall clock: two suffice for equal and for distinct timestamps
Clock == 0..1

\* Outcomes of model.predict: the linear salary model extrapolates below zero
SalaryModelOutcomes == Outcomes({-3000 * Unit - 4, 40000 * Unit + 346})
HouseModelOutcomes == Outcomes({250000 * Unit + 346})
CropModelOutcomes == Outcomes({3 * Unit + 214})

\* save_prediction returns, or db.commit() raises (nothing is stored), or
\* db.refresh() raises after the commit (the row is stored).
SaveOutcomes == {"ok", "commit", "refresh"}

\* The outcomes of save_prediction for a handler that reaches it (or does not)
SaveOutcomesIf(reached) == IF reached THEN SaveOutcomes ELSE {"not called"}

LocationInputs == { <<"U","r","b","a","n">>, <<"M","a","r","s">>, <<>> }

\* Mutant: the confidence handed to save_prediction is not stored
NewPredictionUnscored(table, model_name, model_version, input_data, prediction, confidence, t) ==
    [id |-> Len(table) + 1, model_name |-> model_name,
     model_version |-> model_version, input_data |-> input_data,
     prediction |-> prediction, confidence |-> None, created_at |-> t]

\* Mutant: house records are stored under the name the backend uses
NewPredictionRenamed(table, model_name, model_version, input_data, prediction, confidence, t) ==
    [id |-> Len(table) + 1,
     model_name |-> IF model_name = "house" THEN "house_price" ELSE model_name,
     model_version |-> model_version, input_data |-> input_data,
     prediction |-> prediction, confidence |-> confidence, created_at |-> t]

\* The row save_prediction adds
NewPrediction(table, model_name, model_version, input_data, prediction, confidence, t) ==
    [id |-> Len(table) + 1, model_name |-> model_name,
     model_version |-> model_version, input_data |-> input_data,
     prediction |-> prediction, confidence |-> confidence, created_at |-> t]

\* Mutant: the new row takes the place of the newest stored row
save_prediction_replacing(table, model_name, model_version, input_data, prediction, confidence, t) ==
    IF table = <<>>
    THEN <<NewPrediction(table, model_name, model_version, input_data, prediction,
                         confidence, t)>>
    ELSE [table EXCEPT ![Len(table)] =
            [NewPrediction(table, model_name, model_version, input_data, prediction,
                           confidence, t) EXCEPT !.id = Len(table)]]

\* Mutant: a row is not inserted when the table already holds a row of the
\* same model with the same timestamp
save_prediction_unless_present(table, model_name, model_version, input_data, prediction, confidence, t) ==
    IF \E i \in 1..Len(table) :
          table[i].model_name = model_name /\ table[i].created_at = t
    THEN table
    ELSE Append(table, NewPrediction(table, model_name, model_version, input_data,
                                     prediction, confidence, t))

\* prediction_history after save_prediction's db.add and db.commit
save_prediction(table, model_name, model_version, input_data, prediction, confidence, t) ==
    Append(table, NewPrediction(table, model_name, model_version, input_data,
                                prediction, confidence, t))

\* prediction_history after a call of save_prediction with outcome sv
AfterSave(table, row_table, sv) == IF sv = "commit" THEN table ELSE row_table

\* Mutant: the error response carries no reason
HTTPExceptionBare(endpoint, status_code, detail) ==
    [endpoint |-> endpoint, status |-> status_code, detail |-> ""]

\* raise HTTPException(status_code=..., detail=...)
HTTPException(endpoint, status_code, detail) ==
    [endpoint |-> endpoint, status |-> status_code, detail |-> detail]

MainUnchanged == UNCHANGED <<started, model_versions, now, result, frame, sessions>>

Startup ==
    \E commit_ok \in BOOLEAN :
        /\ model_versions' = IF commit_ok THEN init_model_versions(model_versions, now)
                             ELSE model_versions
        /\ started' = commit_ok
        /\ request' = Nothing
        /\ features' = <<>>
        /\ response' = Nothing
        /\ UNCHANGED <<history, now, result, frame, sessions>>

Tick ==
    /\ now + 1 \in Clock
    /\ now' = now + 1
    /\ UNCHANGED <<started, model_versions, history, request, features, response,
                   result, frame, sessions>>

predict_salary(years_experience, out, sv) ==
    IF ~out.ok THEN HTTPException("/predict/salary", 500, "predict")
    ELSE IF sv # "ok" THEN HTTPException("/predict/salary", 500, sv)
    ELSE [endpoint |-> "/predict/salary", status |-> 200,
          predicted_salary |-> Round2(out.value),
          model |-> "Linear Regression", version |-> "v1.0"]

PredictSalary ==
    \E years_experience \in {-2 * Unit}, out \in SalaryModelOutcomes :
      \E sv \in SaveOutcomesIf(out.ok) :
        /\ started
        /\ Len(history) < MaxHistory
        /\ request' = [endpoint |-> "/predict/salary",
                       input |-> [years_experience |-> years_experience],
                       scored |-> out, saved |-> sv]
        /\ features' = <<years_experience>>
        /\ history' =
             IF ~out.ok THEN history
             ELSE AfterSave(history,
                    save_prediction(history, "salary", "v1.0",
                        [years_experience |-> years_experience], out.value, None, now),
                    sv)
        /\ response' = predict_salary(years_experience, out, sv)
        /\ MainUnchanged

\* Mutant: an unknown location is scored like the sibling fields, not rejected
predict_house_default(input, out, sv) ==
    IF ~out.ok THEN HTTPException("/predict/house", 500, "predict")
    ELSE IF sv # "ok" THEN HTTPException("/predict/house", 500, sv)
    ELSE [endpoint |-> "/predict/house", status |-> 200,
          predicted_price |-> Round2(out.value),
          model |-> "Random Forest", version |-> "v1.0"]

predict_house(input, out, sv) ==
    IF Lower(input.location) \notin DOMAIN location_map
    THEN [endpoint |-> "/predict/house", status |-> 400,
          detail |-> "Invalid location. Must be one of", accepted |-> DOMAIN location_map]
    ELSE IF ~out.ok THEN HTTPException("/predict/house", 500, "predict")
    ELSE IF sv # "ok" THEN HTTPException("/predict/house", 500, sv)
    ELSE [endpoint |-> "/predict/house", status |-> 200,
          predicted_price |-> Round2(out.value),
          model |-> "Random Forest", version |-> "v1.0"]

\* The feature row built for the house model (none when the location is rejected)
HouseFeatures(input) ==
    IF Lower(input.location) \notin DOMAIN location_map THEN <<>>
    ELSE <<input.area, input.bedrooms, location_map[Lower(input.location)]>>

PredictHouse ==
    \E input \in [area : {1000 * Unit}, bedrooms : {2}, location : LocationInputs],
       out \in HouseModelOutcomes :
      \E sv \in SaveOutcomesIf(HouseFeatures(input) # <<>> /\ out.ok) :
        /\ started
        /\ Len(history) < MaxHistory
        /\ features' = HouseFeatures(input)
        /\ request' = [endpoint |-> "/predict/house", input |-> input,
                       scored |-> IF features' = <<>> THEN [ok |-> FALSE, value |-> 0]
                                  ELSE out,
                       saved |-> sv]
        /\ history' =
             IF features' = <<>> \/ ~out.ok THEN history
             ELSE AfterSave(history,
                    save_prediction(history, "house", "v1.0", input, out.value,
                                    None, now),
                    sv)
        /\ response' = predict_house(input, out, sv)
        /\ MainUnchanged

predict_crop(input, out, sv) ==
    IF ~out.ok THEN HTTPException("/predict/crop", 500, "predict")
    ELSE IF sv # "ok" THEN HTTPException("/predict/crop", 500, sv)
    ELSE [endpoint |-> "/predict/crop", status |-> 200,
          predicted_yield |-> Round2(out.value),
          model |-> "Decision Tree", version |-> "v1.0"]

PredictCrop ==
    \E input \in [rainfall : {800 * Unit}, temperature : {25 * Unit}],
       out \in CropModelOutcomes :
      \E sv \in SaveOutcomesIf(out.ok) :
        /\ started
        /\ Len(history) < MaxHistory
        /\ request' = [endpoint |-> "/predict/crop", input |-> input, scored |-> out,
                       saved |-> sv]
        /\ features' = <<input.rainfall, input.temperature>>
        /\ history' =
             IF ~out.ok THEN history
             ELSE AfterSave(history,
                    save_prediction(history, "crop", "v1.0", input, out.value,
                                    None, now),
                    sv)
        /\ response' = predict_crop(input, out, sv)
        /\ MainUnchanged

predict_stock(r, raises, sv) ==
    IF raises THEN HTTPException("/predict/stock", 500, "predict")
    ELSE IF sv # "ok" THEN HTTPException("/predict/stock", 500, sv)
    ELSE [endpoint |-> "/predict/stock", status |-> 200, body |-> r.ret,
          model |-> "LSTM (simulated)", version |-> "v1.0"]

PredictStock ==
    \E input \in [current_price : {-100 * Unit, 100 * Unit}, days_ahead : {1}],
       z \in {2000}, signbit_check \in BOOLEAN :
      \E sv \in SaveOutcomesIf(~StockRaises(input.current_price, input.days_ahead,
                                             signbit_check)) :
        LET raises == StockRaises(input.current_price, input.days_ahead, signbit_check)
            r == StockPredictorPredict(input.current_price, input.days_ahead, z)
        IN  /\ started
            /\ Len(history) < MaxHistory
            /\ request' = [endpoint |-> "/predict/stock", input |-> input,
                           scored |-> [ok |-> ~raises, value |-> 0], saved |-> sv]
            /\ features' = <<>>
            /\ history' =
                 IF raises THEN history
                 ELSE AfterSave(history,
                        save_prediction(history, "stock", "v1.0", input,
                            r.ret.predicted_price, Some(r.ret.confidence), now),
                        sv)
            /\ response' = predict_stock(r, raises, sv)
            /\ MainUnchanged

predict_weather(r, sv) ==
    IF sv # "ok" THEN HTTPException("/predict/weather", 500, sv)
    ELSE [endpoint |-> "/predict/weather", status |-> 200, body |-> r.ret,
          model |-> "Random Forest", version |-> "v1.0"]

PredictWeather ==
    \E input \in [current_temp : {15 * Unit}, current_humidity : {90 * Unit},
                  days_ahead : {1}],
       z_temp \in {0}, z_hum \in {0}, sv \in SaveOutcomes :
        LET r == WeatherPredictorPredict(input.current_temp, input.current_humidity,
                                         input.days_ahead, z_temp, z_hum)
        IN  /\ started
            /\ Len(history) < MaxHistory
            /\ request' = [endpoint |-> "/predict/weather", input |-> input,
                           scored |-> [ok |-> TRUE, value |-> 0], saved |-> sv]
            /\ features' = <<>>
            /\ history' =
                 AfterSave(history,
                    save_prediction(history, "weather", "v1.0", input,
                        r.ret.predicted_temperature, Some(r.ret.confidence), now),
                    sv)
            /\ response' = predict_weather(r, sv)
            /\ MainUnchanged

(***************************************************************************)
(* src/main.py: history and versioning routes                              *)
(***************************************************************************)
\* Whether seq lists the elements of set S once each
IsListingOf(seq, S) ==
    /\ Len(seq) = Cardinality(S)
    /\ {seq[i] : i \in 1..Len(seq)} = S

\* Mutant: oldest first
OrderedByCreatedAtAsc(rows) ==
    { seq \in [1..Cardinality(rows) -> rows] :
        /\ Len(seq) = Cardinality(rows)
        /\ {seq[i] : i \in 1..Len(seq)} = rows
        /\ \A i, j \in 1..Len(seq) : i < j => seq[i].created_at <= seq[j].created_at }

\* The orders in which the database may return the rows of the set rows for
\* ORDER BY created_at DESC (rows with equal created_at come in any order)
OrderedByCreatedAtDesc(rows) ==
    { seq \in [1..Cardinality(rows) -> rows] :
        /\ IsListingOf(seq, rows)
        /\ \A i, j \in 1..Len(seq) : i < j => seq[i].created_at >= seq[j].created_at }

\* .limit(limit): the first limit rows
Limit(seq, limit) == [i \in 1..Min(limit, Len(seq)) |-> seq[i]]

Rows(table) == {table[i] : i \in 1..Len(table)}

\* query.filter(PredictionHistory.model_name == model_name); model_name = None
\* or "" leaves the query unfiltered
FilterByModel(table, model_name) ==
    IF model_name = None \/ model_name = Some("") THEN Rows(table)
    ELSE {row \in Rows(table) : Some(row.model_name) = model_name}

get_prediction_history(table, limit, model_name) ==
    {Limit(seq, limit) : seq \in OrderedByCreatedAtDesc(FilterByModel(table, model_name))}

\* .count() of the rows of a model
CountOf(table, model_name) ==
    Cardinality({i \in 1..Len(table) : table[i].model_name = model_name})

get_history_stats(table) ==
    [total_predictions |-> Len(table),
     predictions_by_model |->
        [m \in {"salary", "house", "crop", "stock", "weather"} |-> CountOf(table, m)]]

get_model_info(endpoint, versions, table, model_name) ==
    LET model_version == FirstModelVersion(versions, model_name)
    IN  IF model_version = None THEN HTTPException(endpoint, 404, "Model not found")
        ELSE [endpoint |-> endpoint, status |-> 200,
              model_info |-> [name |-> model_version[1].model_name,
                              version |-> model_version[1].current_version,
                              description |-> model_version[1].description,
                              accuracy |-> model_version[1].accuracy,
                              created_at |-> model_version[1].created_at,
                              updated_at |-> model_version[1].updated_at],
              recent_predictions |-> Min(10, CountOf(table, model_name)),
              total_predictions |-> CountOf(table, model_name)]

ModelNameParams == {None, Some(""), Some("salary"), Some("bogus")}

ReadUnchanged ==
    UNCHANGED <<started, model_versions, history, now, features, result, frame,
                sessions>>

GetPredictionHistory ==
    \E limit \in 0..MaxHistory, model_name \in ModelNameParams :
        \E body \in get_prediction_history(history, limit, model_name) :
            /\ started
            /\ request' = [endpoint |-> "/history", limit |-> limit,
                           model_name |-> model_name]
            /\ response' = [endpoint |-> "/history", status |-> 200, body |-> body]
            /\ ReadUnchanged

GetHistoryStats ==
    /\ started
    /\ request' = [endpoint |-> "/history/stats"]
    /\ response' = [endpoint |-> "/history/stats", status |-> 200,
                    body |-> get_history_stats(history)]
    /\ ReadUnchanged

GetModelVersions ==
    /\ started
    /\ request' = [endpoint |-> "/models"]
    /\ response' = [endpoint |-> "/models", status |-> 200, body |-> model_versions]
    /\ ReadUnchanged

GetModelInfo ==
    \E model_name \in {"salary", "bogus"} :
        /\ started
        /\ request' = [endpoint |-> "/models/{model_name}", model_name |-> model_name]
        /\ response' = get_model_info("/models/{model_name}", model_versions, history,
                                      model_name)
        /\ ReadUnchanged

Init == InitIdle

Next ==
    \/ Startup
    \/ Tick
    \/ PredictSalary
    \/ PredictHouse
    \/ PredictCrop
    \/ PredictStock
    \/ PredictWeather
    \/ GetPredictionHistory
    \/ GetHistoryStats
    \/ GetModelVersions
    \/ GetModelInfo

Spec == Init /\ [][Next]_vars

(***************************************************************************)
(* src/models.py: startups over an existing database file                  *)
(***************************************************************************)
\* A row found in the file: as an earlier startup created it, or as changed
\* since by a promotion of the model
ExistingRow(table, model_data, version) ==
    IF version = "v1.0" THEN NewModelVersion(table, model_data, 0)
    ELSE [id |-> Len(table) + 1, model_name |-> model_data.model_name,
          current_version |-> version, description |-> "promoted",
          accuracy |-> 99, created_at |-> 0, updated_at |-> 1]

RECURSIVE ExistingTable(_, _, _)
ExistingTable(table, i, present) ==
    IF i > Len(models) THEN table
    ELSE ExistingTable(
            IF present[i] = "absent" THEN table
            ELSE Append(table, ExistingRow(table, models[i], present[i])),
            i + 1, present)

ExistingTables ==
    {ExistingTable(<<>>, 1, present) :
        present \in [1..Len(models) -> {"absent", "v1.0", "v1.1"}]}

InitRegistry ==
    /\ started = FALSE
    /\ model_versions \in ExistingTables
    /\ history = <<>>
    /\ now = 1
    /\ request = Nothing
    /\ features = <<>>
    /\ response = Nothing
    /\ result = Nothing
    /\ frame = Nothing
    /\ sessions = <<>>

NextRegistry == Startup \/ GetModelVersions

SpecRegistry == InitRegistry /\ [][NextRegistry]_vars

(***************************************************************************)
(* src/backend/train_models.py: what the backend models are fitted on      *)
(***************************************************************************)
cities ==
    << <<"m","u","m","b","a","i">>, <<"d","e","l","h","i">>,
       <<"b","a","n","g","a","l","o","r","e">>, <<"c","h","e","n","n","a","i">>,
       <<"h","y","d","e","r","a","b","a","d">>, <<"p","u","n","e">>,
       <<"k","o","l","k","a","t","a">>, <<"a","h","m","e","d","a","b","a","d">> >>

job_types ==
    << <<"i","t">>, <<"h","e","a","l","t","h","c","a","r","e">>,
       <<"f","i","n","a","n","c","e">>,
       <<"e","n","g","i","n","e","e","r","i","n","g">>,
       <<"s","a","l","e","s">>, <<"m","a","r","k","e","t","i","n","g">> >>

crops ==
    << <<"r","i","c","e">>, <<"w","h","e","a","t">>, <<"c","o","t","t","o","n">>,
       <<"s","u","g","a","r","c","a","n","e">>, <<"m","a","i","z","e">>,
       <<"s","o","y","b","e","a","n">>, <<"p","o","t","a","t","o">> >>

states ==
    << <<"p","u","n","j","a","b">>, <<"h","a","r","y","a","n","a">>, <<"u","p">>,
       <<"m","p">>, <<"m","a","h","a","r","a","s","h","t","r","a">>,
       <<"k","a","r","n","a","t","a","k","a">>, <<"t","n">>, <<"w","b">> >>

\* {item: i for i, item in enumerate(items)}
Enumerate(items) ==
    [k \in {items[i] : i \in 1..Len(items)} |->
        (CHOOSE i \in 1..Len(items) : items[i] = k) - 1]

train_city_map == Enumerate(cities)
train_edu_map ==
       (<<"h","i","g","h","_","s","c","h","o","o","l">> :> 0)
    @@ (<<"b","a","c","h","e","l","o","r">> :> 1)
    @@ (<<"m","a","s","t","e","r">> :> 2)
    @@ (<<"p","h","d">> :> 3)
train_job_map == Enumerate(job_types)
train_crop_map == Enumerate(crops)
train_state_map == Enumerate(states)

\* The columns of the frames the scalers and models are fitted on
X_house ==
    <<"city_encoded", "area_sqft", "bedrooms", "bathrooms", "age", "location_rating">>
X_salary == <<"experience", "edu_encoded", "job_encoded", "city_tier", "n_skills">>
X_crop ==
    <<"crop_encoded", "state_encoded", "area", "rainfall", "temp", "fertilizer",
      "pesticide">>

(***************************************************************************)
(* Concurrent POST /predict/salary requests (src/main.py), one database    *)
(* session each (get_db)                                                   *)
(***************************************************************************)
MaxSessions == 2
Sessions == 1..MaxSessions

\* The request of session s; the requests differ in their input
SessionInput(s) == [years_experience |-> s * Unit]

IdleSession(s) ==
    [pc |-> "request", input |-> SessionInput(s),
     scored |-> [ok |-> FALSE, value |-> 0], created_at |-> 0,
     saved |-> "not called", response |-> Nothing]

InitSessions ==
    /\ started = TRUE
    /\ model_versions = init_model_versions(<<>>, 0)
    /\ history = <<>>
    /\ now = 0
    /\ request = Nothing
    /\ features = <<>>
    /\ response = Nothing
    /\ result = Nothing
    /\ frame = Nothing
    /\ sessions = [s \in Sessions |-> IdleSession(s)]

SessionsUnchanged ==
    UNCHANGED <<started, model_versions, now, request, features, response, result,
                frame>>

\* model.predict, the PredictionHistory object and db.add: all local to the
\* request and its session
SessionAdd(s) ==
    \E out \in SalaryModelOutcomes :
        /\ sessions[s].pc = "request"
        /\ sessions' = [sessions EXCEPT ![s] =
              IF out.ok
              THEN [@ EXCEPT !.pc = "added", !.scored = out, !.created_at = now]
              ELSE [@ EXCEPT !.pc = "returned", !.scored = out,
                      !.response = predict_salary(sessions[s].input.years_experience, out,
                                                  "not called")]]
        /\ UNCHANGED history
        /\ SessionsUnchanged

\* db.commit(): the database runs the INSERT and the commit of one session as
\* one transaction, or raises and stores nothing
SessionCommit(s) ==
    \E committed \in BOOLEAN :
        /\ sessions[s].pc = "added"
        /\ history' =
             IF committed
             THEN save_prediction(history, "salary", "v1.0", sessions[s].input,
                                  sessions[s].scored.value, None,
                                  sessions[s].created_at)
             ELSE history
        /\ sessions' = [sessions EXCEPT ![s] =
              IF committed
              THEN [@ EXCEPT !.pc = "committed", !.saved = "committed"]
              ELSE [@ EXCEPT !.pc = "returned", !.saved = "commit",
                      !.response = predict_salary(sessions[s].input.years_experience,
                                                  sessions[s].scored, "commit")]]
        /\ SessionsUnchanged

\* db.refresh(history) and the return of the handler
SessionRefresh(s) ==
    \E sv \in {"ok", "refresh"} :
        /\ sessions[s].pc = "committed"
        /\ sessions' = [sessions EXCEPT ![s] =
              [@ EXCEPT !.pc = "returned", !.saved = sv,
                 !.response = predict_salary(sessions[s].input.years_experience,
                                            sessions[s].scored, sv)]]
        /\ UNCHANGED history
        /\ SessionsUnchanged

SessionTick ==
    /\ now + 1 \in Clock
    /\ now' = now + 1
    /\ UNCHANGED <<started, model_versions, history, request, features, response,
                   result, frame, sessions>>

NextSessions ==
    \/ \E s \in Sessions : SessionAdd(s)
    \/ \E s \in Sessions : SessionCommit(s)
    \/ \E s \in Sessions : SessionRefresh(s)
    \/ SessionTick

SpecSessions == InitSessions /\ [][NextSessions]_vars

(***************************************************************************)
(* Concurrent executions of init_model_versions (src/models.py), one        *)
(* database session each, statement by statement                            *)
(***************************************************************************)
MaxStartups == 2
Startups == 1..MaxStartups

InitStartups ==
    /\ started = FALSE
    /\ model_versions = <<>>
    /\ history = <<>>
    /\ now = 0
    /\ request = Nothing
    /\ features = <<>>
    /\ response = Nothing
    /\ result = Nothing
    /\ frame = Nothing
    /\ sessions = [s \in Startups |->
                      [pc |-> "query", i |-> 1, pending |-> <<>>, error |-> ""]]

StartupsUnchanged ==
    UNCHANGED <<started, history, now, request, features, response, result, frame>>

\* One pass of the loop: the query sees the committed rows only (the session
\* does not autoflush), and db.add keeps the new object pending in the session
StartupQuery(s) ==
    LET i == sessions[s].i
        exists == FirstModelVersion(model_versions, models[i].model_name)
    IN  /\ sessions[s].pc = "query"
        /\ sessions' = [sessions EXCEPT ![s] =
              [@ EXCEPT !.pending = IF exists = None THEN Append(@, models[i]) ELSE @,
                        !.i = i + 1,
                        !.pc = IF i = Len(models) THEN "commit" ELSE "query"]]
        /\ UNCHANGED model_versions
        /\ StartupsUnchanged

\* The pending objects violate UNIQUE(model_name) against the committed rows
UniqueViolated(table, pending) ==
    \E k \in 1..Len(pending) : FirstModelVersion(table, pending[k].model_name) # None

RECURSIVE InsertPending(_, _, _, _)
InsertPending(table, pending, k, t) ==
    IF k > Len(pending) THEN table
    ELSE InsertPending(Append(table, NewModelVersion(table, pending[k], t)),
                       pending, k + 1, t)

\* db.commit(): the INSERTs of the pending objects and the commit are one
\* transaction; a unique-constraint failure rolls it back and raises
StartupCommit(s) ==
    /\ sessions[s].pc = "commit"
    /\ IF UniqueViolated(model_versions, sessions[s].pending)
       THEN /\ sessions' = [sessions EXCEPT ![s] =
                   [@ EXCEPT !.pc = "raised", !.error = "IntegrityError"]]
            /\ UNCHANGED model_versions
       ELSE /\ sessions' = [sessions EXCEPT ![s] = [@ EXCEPT !.pc = "returned"]]
            /\ model_versions' =
                  InsertPending(model_versions, sessions[s].pending, 1, now)
    /\ StartupsUnchanged

StartupTick ==
    /\ now + 1 \in Clock
    /\ now' = now + 1
    /\ UNCHANGED <<started, model_versions, history, request, features, response,
                   result, frame, sessions>>

NextStartups ==
    \/ \E s \in Startups : StartupQuery(s)
    \/ \E s \in Startups : StartupCommit(s)
    \/ StartupTick

SpecStartups == InitStartups /\ [][NextStartups]_vars

(***************************************************************************)
(* Category encoding across both services                                  *)
(***************************************************************************)
NextEncode == NextBackend \/ Startup \/ PredictHouse

SpecEncode == InitIdle /\ [][NextEncode]_vars

(***************************************************************************)
(* Properties                                                              *)
(***************************************************************************)
PredictEndpoints ==
    {"/predict/salary", "/predict/house", "/predict/crop", "/predict/stock",
     "/predict/weather"}

\* The value a successful response of a regression endpoint carries
ResponsePrediction(resp) ==
    IF resp.endpoint = "/predict/salary" THEN resp.predicted_salary
    ELSE IF resp.endpoint = "/predict/house" THEN resp.predicted_price
    ELSE resp.predicted_yield

\* C1: on every predict endpoint that records history, when save_prediction
\* raises after the prediction was computed, the request still returns the
\* successful response (status 200) with the value it would have returned.
RecordingFailureKeepsResponse ==
    (/\ request.endpoint \in PredictEndpoints
     /\ request.scored.ok
     /\ request.saved \in {"commit", "refresh"})
        => /\ response.status = 200
           /\ request.endpoint = "/predict/salary"
                => response.predicted_salary = Round2(request.scored.value)

\* C2: a house request whose lower-cased location is not a key of the location
\* vocabulary gets a 400 invalid-location error listing the accepted values;
\* no feature row is built for it and the model and the database are not used.
AcceptedLocations ==
    { <<"r","u","r","a","l">>, <<"s","u","b","u","r","b","a","n">>,
      <<"u","r","b","a","n">> }

InvalidLocationRejected ==
    (/\ request.endpoint = "/predict/house"
     /\ Lower(request.input.location) \notin AcceptedLocations)
        => /\ response.status = 400
           /\ response.detail = "Invalid location. Must be one of"
           /\ response.accepted = AcceptedLocations
           /\ features = <<>>
           /\ ~request.scored.ok
           /\ request.saved = "not called"

InvalidLocationSeen ==
    /\ request.endpoint = "/predict/house"
    /\ request.input.location = <<"M","a","r","s">>
    /\ response.status = 400
    /\ Len(history) > 0

\* C3: the prediction returned by the salary, house and crop endpoints is never
\* negative, whatever the model returns (stated here for src/main.py; the
\* handlers of src/backend/main.py are covered by BackendPredictionNonNegative).
PredictionNonNegative ==
    (/\ response.endpoint \in {"/predict/salary", "/predict/house", "/predict/crop"}
     /\ response.status = 200)
        => ResponsePrediction(response) >= 0

BackendPredictionNonNegative ==
    response.status = 200 => response.prediction >= 0

\* C4: the salary returned by the backend is max(0, r) + 5000 * n for raw model
\* output r and n skills: the clamp comes first, the bonus after it.
SalaryBonusAfterClamp ==
    (/\ request.endpoint = "/api/salary/predict"
     /\ response.status = 200)
        => response.prediction =
             (IF request.scored.value > 0 THEN request.scored.value ELSE 0)
                + Len(request.input.skills) * 5000 * Unit

\* C5: a city, education level, job type, crop type or state that is not in
\* its vocabulary after lower-casing is encoded as the field's default code
\* (6, 1, 0, 0, 0), and the request is answered without an error unless the
\* model itself raises.
UnknownCategoryDefaults ==
    /\ request.endpoint = "/api/house-price/predict"
        => /\ Lower(request.input.city) \notin DOMAIN city_map => features[1] = 6
           /\ request.scored.ok => response.status = 200
    /\ request.endpoint = "/api/salary/predict"
        => /\ Lower(request.input.education_level) \notin DOMAIN edu_map
                => features[2] = 1
           /\ Lower(request.input.job_type) \notin DOMAIN job_map => features[3] = 0
           /\ request.scored.ok => response.status = 200
    /\ request.endpoint = "/api/crop-yield/predict"
        => /\ Lower(request.input.crop_type) \notin DOMAIN crop_map => features[1] = 0
           /\ Lower(request.input.state) \notin DOMAIN state_map => features[2] = 0
           /\ request.scored.ok => response.status = 200

UnknownCategorySeen ==
    /\ request.endpoint = "/api/salary/predict"
    /\ request.input.education_level = <<"d","i","p","l","o","m","a">>
    /\ request.input.job_type = <<"L","e","g","a","l">>
    /\ features[2] = 1
    /\ features[3] = 0
    /\ response.status = 200

\* C6: the weather condition and the precipitation chance follow the decision
\* table on the clamped humidity h in [0, 100] and the predicted temperature t:
\* h > 70 and t > 15 Rainy, min(95, 50 + 0.5h); h > 70 and t <= 15 Snowy,
\* min(95, 40 + 0.4h); 50 < h <= 70 Cloudy, min(60, 0.6h); h <= 50 Sunny,
\* max(5, 0.3h). The dict returned carries the chance rounded to one decimal.
WeatherDecisionTable ==
    frame.kind = "weather" =>
        LET h == frame.predicted_humidity
            t == frame.predicted_temp
            c == frame.condition
            p == frame.precipitation_chance
        IN  /\ 0 <= h /\ h <= 100 * Unit
            /\ (h > 70 * Unit /\ t > 15 * Unit)
                 => c = "Rainy" /\ p = Min(95 * Unit, 50 * Unit + (5 * h) \div 10)
            /\ (h > 70 * Unit /\ t <= 15 * Unit)
                 => c = "Snowy" /\ p = Min(95 * Unit, 40 * Unit + (4 * h) \div 10)
            /\ (50 * Unit < h /\ h <= 70 * Unit)
                 => c = "Cloudy" /\ p = Min(60 * Unit, (6 * h) \div 10)
            /\ h <= 50 * Unit
                 => c = "Sunny" /\ p = Max(5 * Unit, (3 * h) \div 10)
            /\ h = 70 * Unit => c \notin {"Rainy", "Snowy"}
            /\ h = 50 * Unit => c = "Sunny"
            /\ result.condition = c
            /\ result.precipitation_chance = Round1(p)

HumiditySeventySeen ==
    /\ frame.kind = "weather"
    /\ frame.predicted_humidity = 70 * Unit
    /\ frame.days_ahead > 0
    /\ result.condition = "Cloudy"

\* C7: every stock prediction returned has lower_bound <= predicted_price <=
\* upper_bound, the band being predicted_price -/+ 1.96 * std_error with
\* std_error = volatility * current_price * sqrt(days_ahead) >= 0.
StockBandOrdered ==
    result.kind = "stock" =>
        /\ result.lower_bound <= result.predicted_price
        /\ result.predicted_price <= result.upper_bound
        /\ frame.std_error >= 0
        /\ frame.predicted_price - frame.lower_bound = (196 * frame.std_error) \div 100
        /\ frame.upper_bound - frame.predicted_price = (196 * frame.std_error) \div 100

StockBandSeen ==
    /\ result.kind = "stock"
    /\ frame.current_price > 0
    /\ result.days_ahead > 1
    /\ result.lower_bound < result.predicted_price
    /\ result.predicted_price < result.upper_bound

\* C8: the confidence of the stock and of the weather predictor never rises
\* when days_ahead grows, and is never below its floor (0.5 stock, 0.4 weather).
ConfidenceFloor ==
    /\ result.kind = "stock" => result.confidence >= (5 * Unit) \div 10
    /\ result.kind = "weather" => result.confidence >= (4 * Unit) \div 10

ConfidenceStep ==
    (/\ result.kind \in {"stock", "weather"}
     /\ result'.kind = result.kind
     /\ result.days_ahead <= result'.days_ahead)
        => result'.confidence <= result.confidence

ConfidenceMonotoneFloored == []ConfidenceFloor /\ [][ConfidenceStep]_vars

ConfidenceFloorSeen ==
    /\ result.kind = "weather"
    /\ result.days_ahead = 7
    /\ result.confidence = (4 * Unit) \div 10

\* C9: the prediction history is append-only: every step of the service keeps
\* each stored record, with its field values, at its place; a predict request
\* that returns successfully adds exactly one record, the one of that request;
\* no request adds more than one.
PredictStep ==
    PredictSalary \/ PredictHouse \/ PredictCrop \/ PredictStock \/ PredictWeather

HistoryStep ==
    /\ Len(history') >= Len(history)
    /\ Len(history') <= Len(history) + 1
    /\ \A i \in 1..Len(history) : history'[i] = history[i]
    /\ (response'.status = 200 /\ request'.endpoint \in PredictEndpoints
            /\ now' = now /\ PredictStep)
          => /\ Len(history') = Len(history) + 1
             /\ history'[Len(history')].input_data = request'.input
             /\ "/predict/" \o history'[Len(history')].model_name = request'.endpoint
    /\ history' # history => PredictStep

HistoryAppendOnly == [][HistoryStep]_vars

HistoryReadBack ==
    /\ Len(history) = 2
    /\ history[1].model_name = "stock"
    /\ history[2].model_name = "salary"
    /\ response.endpoint = "/history"
    /\ Len(response.body) = 2

\* C10: init_model_versions is an idempotent create-if-absent: after a startup
\* that completed, model_versions holds exactly one row for each of salary,
\* house, crop, stock and weather; no startup changes or removes a row that
\* was there before it, and a startup over a complete table changes nothing.
OneRowPerModel ==
    \A name \in {"salary", "house", "crop", "stock", "weather"} :
        Cardinality({i \in 1..Len(model_versions) :
                        model_versions[i].model_name = name}) = 1

RegistryStep ==
    /\ Len(model_versions') >= Len(model_versions)
    /\ \A i \in 1..Len(model_versions) : model_versions'[i] = model_versions[i]
    /\ OneRowPerModel => model_versions' = model_versions

StartupCreatesIfAbsent ==
    [](started => OneRowPerModel /\ Len(model_versions) = 5) /\ [][RegistryStep]_vars

PromotedRowKept ==
    /\ started
    /\ \E i, j \in 1..Len(model_versions) :
        /\ model_versions[i].model_name = "salary"
        /\ model_versions[i].current_version = "v1.1"
        /\ model_versions[i].accuracy = 99
        /\ model_versions[j].model_name = "weather"
        /\ model_versions[j].created_at = 1

(***************************************************************************)
(* C11  Category encoding is case-insensitive and repeatable               *)
(***************************************************************************)
\* a and b are the same text up to the case of their letters
SameLetters(a, b) ==
    /\ Len(a) = Len(b)
    /\ \A i \in 1..Len(a) : LowerChar(a[i]) = LowerChar(b[i])

\* code is the code vocabulary assigns to the key that text is a casing of
KnownCode(vocabulary, text, code) ==
    \A k \in DOMAIN vocabulary : SameLetters(text, k) => code = vocabulary[k]

EncodingByKey ==
    /\ request.endpoint = "/api/house-price/predict"
          => KnownCode(city_map, request.input.city, features[1])
    /\ request.endpoint = "/api/salary/predict"
          => /\ KnownCode(edu_map, request.input.education_level, features[2])
             /\ KnownCode(job_map, request.input.job_type, features[3])
    /\ request.endpoint = "/api/crop-yield/predict"
          => /\ KnownCode(crop_map, request.input.crop_type, features[1])
             /\ KnownCode(state_map, request.input.state, features[2])
    /\ request.endpoint = "/predict/house"
          => \A k \in DOMAIN location_map :
                SameLetters(request.input.location, k)
                    => features # <<>> /\ features[3] = location_map[k]

\* Two consecutive requests to one endpoint with the same categorical text
\* are given the same codes.
EncodingRepeatStep ==
    /\ (request.endpoint = "/api/house-price/predict"
            /\ request'.endpoint = request.endpoint
            /\ request'.input.city = request.input.city)
          => features'[1] = features[1]
    /\ (request.endpoint = "/api/salary/predict"
            /\ request'.endpoint = request.endpoint)
          => /\ request'.input.education_level = request.input.education_level
                   => features'[2] = features[2]
             /\ request'.input.job_type = request.input.job_type
                   => features'[3] = features[3]
    /\ (request.endpoint = "/api/crop-yield/predict"
            /\ request'.endpoint = request.endpoint)
          => /\ request'.input.crop_type = request.input.crop_type
                   => features'[1] = features[1]
             /\ request'.input.state = request.input.state
                   => features'[2] = features[2]
    /\ (request.endpoint = "/predict/house"
            /\ request'.endpoint = request.endpoint
            /\ request'.input.location = request.input.location)
          => features' = features

\* C11: a category given as any casing of a known vocabulary key is encoded
\* as the code of that key, and a repeated request with the same text is
\* given the same code.
EncodingCaseInsensitive == []EncodingByKey /\ [][EncodingRepeatStep]_vars

\* "Mumbai" has been encoded as the code of "mumbai"
MixedCaseKeyEncoded ==
    /\ request.endpoint = "/api/house-price/predict"
    /\ request.input.city = <<"M","u","m","b","a","i">>
    /\ features[1] = 0

(***************************************************************************)
(* C12  Feature rows follow the fitted columns                             *)
(***************************************************************************)
\* The values a fitted column may take for a request: the request field the
\* column was generated from, or, for an encoded column, the training code of
\* the text (any training code when the text is not a training category).
EncodedValues(train_map, text) ==
    IF Lower(text) \in DOMAIN train_map THEN {train_map[Lower(text)]}
    ELSE {train_map[k] : k \in DOMAIN train_map}

ColumnValues(column, input) ==
    CASE column = "city_encoded" -> EncodedValues(train_city_map, input.city)
      [] column = "area_sqft" -> {input.area_sqft}
      [] column = "bedrooms" -> {input.bedrooms}
      [] column = "bathrooms" -> {input.bathrooms}
      [] column = "age" -> {input.age}
      [] column = "location_rating" -> {input.location_rating}
      [] column = "experience" -> {input.experience_years}
      [] column = "edu_encoded" -> EncodedValues(train_edu_map, input.education_level)
      [] column = "job_encoded" -> EncodedValues(train_job_map, input.job_type)
      [] column = "city_tier" -> {input.city_tier}
      [] column = "n_skills" -> {Len(input.skills)}
      [] column = "crop_encoded" -> EncodedValues(train_crop_map, input.crop_type)
      [] column = "state_encoded" -> EncodedValues(train_state_map, input.state)
      [] column = "area" -> {input.area_hectares}
      [] column = "rainfall" -> {input.rainfall_mm}
      [] column = "temp" -> {input.temperature_celsius}
      [] column = "fertilizer" -> {input.fertilizer_kg}
      [] column = "pesticide" -> {input.pesticide_kg}

RowFollows(columns) ==
    /\ Len(features) = Len(columns)
    /\ \A i \in 1..Len(columns) : features[i] \in ColumnValues(columns[i], request.input)

\* C12: the feature row a backend handler builds has the length and the field
\* order of the columns its model was fitted on: 6 for house_price, 5 for
\* salary, 7 for crop_yield.
FeaturesMatchColumns ==
    /\ request.endpoint = "/api/house-price/predict"
          => RowFollows(X_house) /\ Len(features) = 6
    /\ request.endpoint = "/api/salary/predict"
          => RowFollows(X_salary) /\ Len(features) = 5
    /\ request.endpoint = "/api/crop-yield/predict"
          => RowFollows(X_crop) /\ Len(features) = 7

\* "Mumbai", 1000, 2, 2, 5, 4.0 has been built into [0, 1000, 2, 2, 5, 4.0]
MumbaiRowBuilt ==
    /\ request.endpoint = "/api/house-price/predict"
    /\ request.input = [city |-> <<"M","u","m","b","a","i">>, area_sqft |-> 1000 * Unit,
                        bedrooms |-> 2, bathrooms |-> 2, age |-> 5,
                        location_rating |-> 4 * Unit]
    /\ features = <<0, 1000 * Unit, 2, 2, 5, 4 * Unit>>

(***************************************************************************)
(* C13  Concurrent requests each leave their own record                    *)
(***************************************************************************)
Returned == {s \in Sessions : sessions[s].pc = "returned"}
Successful == {s \in Returned : sessions[s].response.status = 200}
Committed == {s \in Sessions : sessions[s].saved \in {"committed", "ok", "refresh"}}
RecordsOf(s) == {i \in 1..Len(history) : history[i].input_data = sessions[s].input}

FailedBeforeRecordingStep ==
    (request'.endpoint \in PredictEndpoints /\ request'.saved = "not called")
        => /\ response'.endpoint = request'.endpoint
           /\ response'.status \in {400, 500}
           /\ response'.detail # ""
           /\ history' = history
           /\ model_versions' = model_versions
           /\ started'

\* C14: a predict request that fails before the recording step (rejected
\* location, or an exception while scoring) is answered with a 400 or 500
\* response carrying a reason, leaves prediction_history and model_versions
\* as they were, and leaves the service running.
FailedRequestChangesNothing == [][FailedBeforeRecordingStep]_vars

\* A location was rejected after an earlier request had been recorded
RejectedAfterRecord ==
    /\ request.endpoint = "/predict/house"
    /\ request.saved = "not called"
    /\ response.status = 400
    /\ Len(history) = 1

(***************************************************************************)
(* C15  Confidence is stored for stock and weather only                    *)
(***************************************************************************)
\* C15: a record of prediction_history has a confidence exactly when its
\* model_name is stock or weather.
ConfidenceOnlyForSimulated ==
    \A i \in 1..Len(history) :
        history[i].confidence # None <=> history[i].model_name \in {"stock", "weather"}

\* A stock record with a confidence next to a salary record without
StockAndSalaryRecorded ==
    \E i, j \in 1..Len(history) :
        /\ history[i].model_name = "stock" /\ history[i].confidence # None
        /\ history[j].model_name = "salary" /\ history[j].confidence = None

(***************************************************************************)
(* C16  Records carry a registered version                                 *)
(***************************************************************************)
\* C16: after startup, every record's model_name and model_version are the
\* model_name and current_version of a row of model_versions.
RecordVersionRegistered ==
    \A i \in 1..Len(history) :
        \E j \in 1..Len(model_versions) :
            /\ model_versions[j].model_name = history[i].model_name
            /\ model_versions[j].current_version = history[i].model_version

\* Records of two models stand next to the registry startup created
TwoModelsRecorded ==
    /\ Len(history) = 2
    /\ history[1].model_name = "salary"
    /\ history[2].model_name = "weather"
    /\ Len(model_versions) = 5

(***************************************************************************)
(* C17  Concurrent startups on an empty database                           *)
(***************************************************************************)
\* C17 as stated: concurrent executions of init_model_versions on an empty
\* database all complete without error, and once they have ended the table
\* has exactly one row for each of the five names.
ConcurrentStartupsComplete ==
    /\ \A s \in Startups : sessions[s].pc # "raised"
    /\ (\A s \in Startups : sessions[s].pc \in {"returned", "raised"})
          => /\ Len(model_versions) = Len(models)
             /\ \A k \in 1..Len(models) :
                   Cardinality({j \in 1..Len(model_versions) :
                       model_versions[j].model_name = models[k].model_name}) = 1

(***************************************************************************)
(* C18  The statistics add up                                              *)
(***************************************************************************)
SumByModel(stats) ==
    stats.predictions_by_model["salary"] + stats.predictions_by_model["house"]
        + stats.predictions_by_model["crop"] + stats.predictions_by_model["stock"]
        + stats.predictions_by_model["weather"]

Matching(model_name) ==
    {row \in Rows(history) :
        model_name \in {None, Some("")} \/ Some(row.model_name) = model_name}

\* C19: GET /history with limit n >= 0 and optional model_name m returns at
\* most n records, newest first, all of model m when m is a non-empty string
\* and of any model when m is empty or absent, and they are the n newest
\* matching records when more than n match.
HistoryListing ==
    response.endpoint = "/history" =>
        LET body == response.body
            matching == Matching(request.model_name)
        IN  /\ Len(body) <= request.limit
            /\ Len(body) = Min(request.limit, Cardinality(matching))
            /\ \A i \in 1..Len(body) : body[i] \in matching
            /\ \A i, j \in 1..Len(body) :
                  i < j => body[i] # body[j] /\ body[i].created_at >= body[j].created_at
            /\ \A row \in matching :
                  (\A i \in 1..Len(body) : body[i] # row)
                      => \A i \in 1..Len(body) : row.created_at <= body[i].created_at

\* Of two salary records with different timestamps, a request with limit 1
\* and model_name salary was answered with the newer one
NewestOfTwoReturned ==
    /\ response.endpoint = "/history"
    /\ request.limit = 1
    /\ request.model_name = Some("salary")
    /\ Cardinality(Matching(request.model_name)) = 2
    /\ Len(response.body) = 1
    /\ \E row \in Matching(request.model_name) :
          row.created_at < response.body[1].created_at

====
